---------------------------- MODULE Spec2Model ----------------------------
(***************************************************************************)
(* Document Explainer API (src/main.py): registration, the password-reset  *)
(* token lifecycle and the quota-gated document upload, as a state machine *)
(* over the database rows.                                                 *)
(*                                                                         *)
(* Every HTTP request runs in a worker with its own SQLAlchemy session     *)
(* (deps.get_db).  A session reads rows into private objects and writes    *)
(* them back at db.commit(); PostgreSQL runs each transaction READ         *)
(* COMMITTED, so a handler is a sequence of atomic steps: one per round    *)
(* of reads (with the local computation that follows it) and one for the   *)
(* commit.  Other requests may take steps in between.                      *)
(***************************************************************************)
EXTENDS Integers, Sequences, FiniteSets, TLC

(* ------------------------------ bounds -------------------------------- *)

\* Documents the model lets be uploaded.
MaxDocs == 4
\* Reset tokens the model lets be issued.
MaxTokens == 2
\* The clock stops advancing here (minutes).
MaxTime == 45
\* Minutes the clock advances by in one step.
TickMinutes == 15

\* The concurrent request workers.
Procs == {"w1", "w2"}

(* ------------------------- program constants -------------------------- *)

\* main.py:266  free_docs_used >= 3
FREE_LIMIT == 3
\* main.py:210  timedelta(minutes=30)
TOKEN_MINUTES == 30
\* main.py:223  len(body.new_password) < 8
MIN_PASSWORD_LEN == 8
\* models.py:50  used_at is nullable: SQL NULL
Null == -1

(* ------------------------------ inputs -------------------------------- *)

\* A string is a sequence of one-character strings.
Rep(c, n) == [i \in 1..n |-> c]

\* Request emails: two spellings of one address, and another address.
RawEmails == { <<"a">>, <<" ", "A">>, <<"b">> }

\* The two spellings of the one address.
OneAddress == { <<"a">>, <<" ", "A">> }

\* Passwords given to register.
RegPasswords == { Rep("r", 8) }

\* Passwords given to reset_password: long enough (with its trailing blank,
\* which hash_password strips), too short.
NewPasswords == { Rep("y", 7) \o <<" ">>, Rep("z", 7) }

\* Uploaded file names.
FileNames == { <<"f", ".", "p">> }

(* --------------------------- pure functions --------------------------- *)

\* str.lower() on one character.
LowerChar(c) == CASE c = "A" -> "a"
                  [] c = "B" -> "b"
                  [] OTHER -> c

\* str.lower()
Lower(s) == [i \in 1..Len(s) |-> LowerChar(s[i])]

RECURSIVE LStrip(_)
LStrip(s) == IF s # <<>> /\ Head(s) = " " THEN LStrip(Tail(s)) ELSE s

RECURSIVE RStrip(_)
RStrip(s) == IF s # <<>> /\ s[Len(s)] = " "
             THEN RStrip(SubSeq(s, 1, Len(s) - 1))
             ELSE s

\* str.strip()
Strip(s) == RStrip(LStrip(s))

\* body.email.lower().strip()
NormalizeEmail(raw) == Strip(Lower(raw))

\* auth_utils.hash_password: the hash of the stripped password (the salt is
\* left out: verify_password accepts exactly the hashes of that password).
hash_password(password) == <<"pbkdf2_sha256">> \o Strip(password)

\* main.hash_token: sha256 hex digest, one-way and collision-free.
hash_token(token) == <<"sha256", token>>

\* os.path.splitext(filename)[1]: from the last dot on.
RECURSIVE splitext(_)
splitext(name) == IF name = <<>> THEN <<>>
                  ELSE IF name[Len(name)] = "."
                       THEN <<".">>
                       ELSE LET e == splitext(SubSeq(name, 1, Len(name) - 1))
                            IN  IF e = <<>> THEN <<>>
                                ELSE e \o <<name[Len(name)]>>

SetMin(S) == CHOOSE i \in S : \A j \in S : i <= j

(* ------------------------------- state -------------------------------- *)

VARIABLES
    users,        \* table users: row id = index
    docs,         \* table documents: row id = index
    tokens,       \* table password_reset_tokens: row id = index
    outbox,       \* background tasks scheduled by forgot_password
    now,          \* utcnow(), in minutes
    pc,           \* each worker's position in its handler
    req,          \* each worker's request, while it handles it
    loc,          \* each worker's session: the rows it read, its pending writes
    resp,         \* the response sent last, with the request it answers
    docFree,      \* history: per document, whether its upload counted as free
    consumeCount  \* history: per token, the successful reset_password calls

vars == <<users, docs, tokens, outbox, now, pc, req, loc, resp, docFree, consumeCount>>

NoReq == [op |-> "none", creds |-> 0, email |-> <<>>, password |-> <<>>,
          token |-> 0, doc_id |-> 0, filename |-> <<>>]

NoLoc == [user_id |-> 0, is_paid |-> FALSE, free_docs_used |-> 0,
          email |-> <<>>, password_hash |-> <<>>, reset_id |-> 0,
          expires_at |-> 0]

\* HTTPException(status_code, detail)
HTTPException(code, detail) == [code |-> code, detail |-> detail, id |-> 0, body |-> <<>>]

\* A 200 response carrying an id and a body.
Ok(id, body) == [code |-> 200, detail |-> "ok", id |-> id, body |-> body]

Init ==
    /\ users = <<>>
    /\ docs = <<>>
    /\ tokens = <<>>
    /\ outbox = <<>>
    /\ now = 0
    /\ pc = [p \in Procs |-> "idle"]
    /\ req = [p \in Procs |-> NoReq]
    /\ loc = [p \in Procs |-> NoLoc]
    /\ resp = [seq |-> 0, req |-> NoReq, r |-> HTTPException(0, "")]
    /\ docFree = <<>>
    /\ consumeCount = <<>>

\* Workers inside a handler, between its first read and its commit.
InFlight == {p \in Procs : pc[p] # "idle"}

InFlightAt(label) == Cardinality({p \in Procs : pc[p] = label})

\* db.query(User).filter(User.email == email).first(): 0 for None.
UserByEmail(email) ==
    LET S == {i \in 1..Len(users) : users[i].email = email}
    IN  IF S = {} THEN 0 ELSE SetMin(S)

\* auth_deps.get_current_user: the bearer token's user id, 0 when the token
\* is rejected or names no user.
get_current_user(creds) == IF creds \in 1..Len(users) THEN creds ELSE 0

\* The handler returns or raises: the response r to request q is sent and
\* the session closed (deps.get_db: db.close()).  resp.seq tells a response
\* from the one before it.
Finish(p, q, r) ==
    /\ pc' = [pc EXCEPT ![p] = "idle"]
    /\ req' = [req EXCEPT ![p] = NoReq]
    /\ loc' = [loc EXCEPT ![p] = NoLoc]
    /\ resp' = [seq |-> 1 - resp.seq, req |-> q, r |-> r]

\* The handler goes on to its next database round with session state l.
Continue(p, label, q, l) ==
    /\ pc' = [pc EXCEPT ![p] = label]
    /\ req' = [req EXCEPT ![p] = q]
    /\ loc' = [loc EXCEPT ![p] = l]
    /\ UNCHANGED resp

(* ------------------------------ register ------------------------------ *)

\* main.py:154-164: normalize, look the email up, build the row.
RegisterBegin(p, raw, password) ==
    /\ pc[p] = "idle"
    /\ LET email == NormalizeEmail(raw)
           q == [NoReq EXCEPT !.op = "register", !.email = raw, !.password = password]
       IN  IF UserByEmail(email) # 0
           THEN Finish(p, q, HTTPException(400, "Email already registered"))
           ELSE Continue(p, "reg_commit", q,
                         [NoLoc EXCEPT !.email = email,
                                       !.password_hash = hash_password(password)])
    /\ UNCHANGED <<users, docs, tokens, outbox, now, docFree, consumeCount>>

\* main.py:166-171: INSERT and commit.  users.email is UNIQUE (models.py:11):
\* a second row with the email raises IntegrityError, which nothing catches.
RegisterCommit(p) ==
    /\ pc[p] = "reg_commit"
    /\ IF UserByEmail(loc[p].email) # 0
       THEN /\ Finish(p, req[p], HTTPException(500, "Internal Server Error"))
            /\ UNCHANGED users
       ELSE /\ users' = Append(users, [email |-> loc[p].email,
                                       password_hash |-> loc[p].password_hash,
                                       free_docs_used |-> 0,
                                       is_paid |-> FALSE])
            /\ Finish(p, req[p], Ok(Len(users) + 1, <<>>))
    /\ UNCHANGED <<docs, tokens, outbox, now, docFree, consumeCount>>

(* ------------------------------- upload ------------------------------- *)

\* The gate with > for >=: a fourth free upload passes.
QuotaExceeded_OffByOne(is_paid, free_docs_used) == ~is_paid /\ free_docs_used > FREE_LIMIT

\* The quota gate, main.py:266.
QuotaExceeded(is_paid, free_docs_used) == ~is_paid /\ free_docs_used >= FREE_LIMIT

\* current_user.free_docs_used after main.py:288-289.
BumpedCounter(is_paid, free_docs_used) ==
    IF ~is_paid THEN free_docs_used + 1 ELSE free_docs_used

\* auth_deps.py:12-27 and main.py:266-289: load the user, check the quota on
\* the loaded row, build the document, bump the loaded counter.
UploadBegin(p, creds, filename) ==
    /\ pc[p] = "idle"
    /\ Len(docs) + InFlightAt("up_commit") < MaxDocs
    /\ LET uid == get_current_user(creds)
           q == [NoReq EXCEPT !.op = "upload", !.creds = creds, !.filename = filename]
       IN  IF uid = 0
           THEN Finish(p, q, HTTPException(401, "Invalid or expired token"))
           ELSE IF QuotaExceeded(users[uid].is_paid, users[uid].free_docs_used)
           THEN Finish(p, q, HTTPException(402, "Free limit reached"))
           ELSE Continue(p, "up_commit", q,
                         [NoLoc EXCEPT !.user_id = uid,
                                       !.is_paid = users[uid].is_paid,
                                       !.free_docs_used =
                                           BumpedCounter(users[uid].is_paid,
                                                         users[uid].free_docs_used)])
    /\ UNCHANGED <<users, docs, tokens, outbox, now, docFree, consumeCount>>

\* main.py:291-294: INSERT the document and, when the counter was bumped,
\* UPDATE users SET free_docs_used = <the session's value>.
UploadCommit(p) ==
    /\ pc[p] = "up_commit"
    /\ LET uid == loc[p].user_id
           id  == Len(docs) + 1
       IN  /\ docs' = Append(docs, [user_id |-> uid,
                                    original_filename |-> req[p].filename,
                                    stored_filename |-> <<"uuid", id>> \o splitext(req[p].filename),
                                    status |-> "uploaded",
                                    review_notes |-> <<>>])
           /\ users' = IF loc[p].is_paid THEN users
                       ELSE [users EXCEPT ![uid].free_docs_used = loc[p].free_docs_used]
           /\ docFree' = Append(docFree, ~loc[p].is_paid)
           /\ Finish(p, req[p], Ok(id, <<>>))
    /\ UNCHANGED <<tokens, outbox, now, consumeCount>>

\* The admin's paid-flag toggle (spec 4.1 setPaidStatus): one UPDATE.
SetPaidStatus(uid, paid) ==
    /\ uid \in 1..Len(users)
    /\ users[uid].is_paid # paid
    /\ users' = [users EXCEPT ![uid].is_paid = paid]
    /\ UNCHANGED <<docs, tokens, outbox, now, pc, req, loc, resp, docFree, consumeCount>>

(* ---------------------------- get_document ---------------------------- *)

\* The lookup without its owner filter.
DocForUser_AnyOwner(document_id, uid) ==
    IF document_id \in 1..Len(docs) THEN document_id ELSE 0

\* db.query(Document).filter(Document.id == document_id,
\*                           Document.user_id == current_user.id).first()
DocForUser(document_id, uid) ==
    LET S == {i \in 1..Len(docs) : i = document_id /\ docs[i].user_id = uid}
    IN  IF S = {} THEN 0 ELSE SetMin(S)

\* main.py:319-341
get_document(p, creds, document_id) ==
    /\ pc[p] = "idle"
    /\ LET uid == get_current_user(creds)
           d   == DocForUser(document_id, uid)
           q   == [NoReq EXCEPT !.op = "get_document", !.creds = creds,
                                !.doc_id = document_id]
       IN  IF uid = 0
           THEN Finish(p, q, HTTPException(401, "Invalid or expired token"))
           ELSE IF d = 0
           THEN Finish(p, q, HTTPException(404, "Document not found"))
           ELSE Finish(p, q, Ok(d, <<docs[d].original_filename, docs[d].stored_filename,
                                     docs[d].status, docs[d].review_notes>>))
    /\ UNCHANGED <<users, docs, tokens, outbox, now, docFree, consumeCount>>

\* main.py:343-362
get_document_review(p, creds, document_id) ==
    /\ pc[p] = "idle"
    /\ LET uid == get_current_user(creds)
           d   == DocForUser(document_id, uid)
           q   == [NoReq EXCEPT !.op = "get_document_review", !.creds = creds,
                                !.doc_id = document_id]
       IN  IF uid = 0
           THEN Finish(p, q, HTTPException(401, "Invalid or expired token"))
           ELSE IF d = 0
           THEN Finish(p, q, HTTPException(404, "Document not found"))
           ELSE Finish(p, q, Ok(d, <<docs[d].status, docs[d].review_notes>>))
    /\ UNCHANGED <<users, docs, tokens, outbox, now, docFree, consumeCount>>

(* --------------------------- forgot_password -------------------------- *)

\* forgot_password answering an unknown email with an error.
ForgotBegin_Reveals(p, raw) ==
    /\ pc[p] = "idle"
    /\ Len(tokens) + InFlightAt("fp_commit") < MaxTokens
    /\ LET email == NormalizeEmail(raw)
           uid == UserByEmail(email)
           q == [NoReq EXCEPT !.op = "forgot_password", !.email = raw]
       IN  IF uid = 0
           THEN Finish(p, q, HTTPException(404, "User not found"))
           ELSE Continue(p, "fp_commit", q,
                         [NoLoc EXCEPT !.user_id = uid,
                                       !.email = users[uid].email,
                                       !.expires_at = now + TOKEN_MINUTES])
    /\ UNCHANGED <<users, docs, tokens, outbox, now, docFree, consumeCount>>

\* main.py:197-211: look the user up; for a user, build the token row, which
\* expires 30 minutes after the clock read here.
ForgotBegin(p, raw) ==
    /\ pc[p] = "idle"
    /\ Len(tokens) + InFlightAt("fp_commit") < MaxTokens
    /\ LET email == NormalizeEmail(raw)
           uid == UserByEmail(email)
           q == [NoReq EXCEPT !.op = "forgot_password", !.email = raw]
       IN  IF uid = 0
           THEN Finish(p, q, Ok(0, <<>>))
           ELSE Continue(p, "fp_commit", q,
                         [NoLoc EXCEPT !.user_id = uid,
                                       !.email = users[uid].email,
                                       !.expires_at = now + TOKEN_MINUTES])
    /\ UNCHANGED <<users, docs, tokens, outbox, now, docFree, consumeCount>>

\* forgot_password retiring the user's earlier tokens as it issues one.
ForgotCommit_Invalidates(p) ==
    /\ pc[p] = "fp_commit"
    /\ LET raw_token == Len(tokens) + 1
           retired == [i \in 1..Len(tokens) |->
                          IF tokens[i].user_id = loc[p].user_id /\ tokens[i].used_at = Null
                          THEN [tokens[i] EXCEPT !.used_at = now]
                          ELSE tokens[i]]
       IN  /\ tokens' = Append(retired, [user_id |-> loc[p].user_id,
                                         token_hash |-> hash_token(raw_token),
                                         expires_at |-> loc[p].expires_at,
                                         used_at |-> Null])
           /\ outbox' = Append(outbox, [to |-> loc[p].email, token |-> raw_token])
           /\ consumeCount' = Append(consumeCount, 0)
           /\ Finish(p, req[p], Ok(0, <<>>))
    /\ UNCHANGED <<users, docs, now, docFree>>

\* main.py:204-219: INSERT the token row (the hash of a secret no earlier
\* token has: secrets.token_urlsafe(32)), commit, schedule the email.
ForgotCommit(p) ==
    /\ pc[p] = "fp_commit"
    /\ LET raw_token == Len(tokens) + 1
       IN  /\ tokens' = Append(tokens, [user_id |-> loc[p].user_id,
                                        token_hash |-> hash_token(raw_token),
                                        expires_at |-> loc[p].expires_at,
                                        used_at |-> Null])
           /\ outbox' = Append(outbox, [to |-> loc[p].email, token |-> raw_token])
           /\ consumeCount' = Append(consumeCount, 0)
           /\ Finish(p, req[p], Ok(0, <<>>))
    /\ UNCHANGED <<users, docs, now, docFree>>

(* --------------------------- reset_password --------------------------- *)

\* db.query(PasswordResetToken).filter(token_hash == h).first(): 0 for None.
TokenByHash(h) ==
    LET S == {i \in 1..Len(tokens) : tokens[i].token_hash = h}
    IN  IF S = {} THEN 0 ELSE SetMin(S)

\* main.py:234: not reset or reset.used_at or reset.expires_at < utcnow()
TokenRejected(reset) ==
    \/ reset = 0
    \/ tokens[reset].used_at # Null
    \/ tokens[reset].expires_at < now

\* db.query(User).filter(User.id == user_id).first(): 0 for None.
UserById(user_id) == IF user_id \in 1..Len(users) THEN user_id ELSE 0

\* main.py:223-241: check the password's length, look the token up by its
\* hash, check it, load its user, set the new hash on the loaded user.
ResetBegin(p, token, new_password) ==
    /\ pc[p] = "idle"
    /\ LET reset == TokenByHash(hash_token(token))
           q == [NoReq EXCEPT !.op = "reset_password", !.token = token,
                              !.password = new_password]
       IN  IF Len(new_password) < MIN_PASSWORD_LEN
           THEN Finish(p, q, HTTPException(400, "Password too short"))
           ELSE IF TokenRejected(reset)
           THEN Finish(p, q, HTTPException(400, "Invalid or expired token"))
           ELSE IF UserById(tokens[reset].user_id) = 0
           THEN Finish(p, q, HTTPException(400, "Invalid token"))
           ELSE Continue(p, "rp_commit", q,
                         [NoLoc EXCEPT !.user_id = tokens[reset].user_id,
                                       !.reset_id = reset,
                                       !.password_hash = hash_password(new_password)])
    /\ UNCHANGED <<users, docs, tokens, outbox, now, docFree, consumeCount>>

\* reset_password committing the token's used_at without the password.
ResetCommit_TokenOnly(p) ==
    /\ pc[p] = "rp_commit"
    /\ tokens' = [tokens EXCEPT ![loc[p].reset_id].used_at = now]
    /\ consumeCount' = [consumeCount EXCEPT ![loc[p].reset_id] = @ + 1]
    /\ Finish(p, req[p], Ok(0, <<>>))
    /\ UNCHANGED <<users, docs, outbox, now, docFree>>

\* main.py:242-245: set used_at on the loaded token and commit: one
\* transaction UPDATEs the user's password_hash and the token's used_at.
ResetCommit(p) ==
    /\ pc[p] = "rp_commit"
    /\ users' = [users EXCEPT ![loc[p].user_id].password_hash = loc[p].password_hash]
    /\ tokens' = [tokens EXCEPT ![loc[p].reset_id].used_at = now]
    /\ consumeCount' = [consumeCount EXCEPT ![loc[p].reset_id] = @ + 1]
    /\ Finish(p, req[p], Ok(0, <<>>))
    /\ UNCHANGED <<docs, outbox, now, docFree>>

\* Time passes.
Tick ==
    /\ now + TickMinutes <= MaxTime
    /\ now' = now + TickMinutes
    /\ UNCHANGED <<users, docs, tokens, outbox, pc, req, loc, resp, docFree, consumeCount>>

(* --------------------------- specifications --------------------------- *)

RegisterOf(emails) == \E p \in Procs :
    \/ \E raw \in emails, password \in RegPasswords : RegisterBegin(p, raw, password)
    \/ RegisterCommit(p)

Register == RegisterOf(RawEmails)

Upload == \E p \in Procs :
    \/ \E creds \in 0..Len(users), filename \in FileNames : UploadBegin(p, creds, filename)
    \/ UploadCommit(p)

Read == \E p \in Procs :
    \/ \E creds \in 0..Len(users), d \in 1..MaxDocs : get_document(p, creds, d)
    \/ \E creds \in 0..Len(users), d \in 1..MaxDocs : get_document_review(p, creds, d)

Admin == \E uid \in 1..Len(users), paid \in BOOLEAN : SetPaidStatus(uid, paid)

Forgot == \E p \in Procs :
    \/ \E raw \in RawEmails : ForgotBegin(p, raw)
    \/ ForgotCommit(p)

Reset == \E p \in Procs :
    \/ \E token \in 1..MaxTokens, new_password \in NewPasswords :
           ResetBegin(p, token, new_password)
    \/ ResetCommit(p)

\* One request at a time: while a request is in flight, the next step is
\* its own, and no request begins before it has ended.
Sequential == /\ Cardinality({p \in Procs : pc'[p] # "idle"}) <= 1
              /\ InFlight # {} => pc' # pc

\* Accounts, uploads and the admin's paid flag, requests interleaved.
UploadNext == Register \/ Upload \/ Admin

UploadSpec == Init /\ [][UploadNext]_vars

\* The same, one request at a time.
SeqUploadNext == \/ Register /\ Sequential
                 \/ Upload /\ Sequential
                 \/ Admin /\ Sequential

SeqUploadSpec == Init /\ [][SeqUploadNext]_vars

\* Accounts, uploads and reads, requests interleaved.
ReadNext == Register \/ Upload \/ Read

ReadSpec == Init /\ [][ReadNext]_vars

\* One account (registered under either spelling) and the reset-token
\* lifecycle, requests interleaved; the other address stays unregistered.
AuthNext == RegisterOf(OneAddress) \/ Forgot \/ Reset \/ Tick

AuthSpec == Init /\ [][AuthNext]_vars

\* The same, one request at a time.
SeqAuthNext == \/ RegisterOf(OneAddress) /\ Sequential
               \/ Forgot /\ Sequential
               \/ Reset /\ Sequential
               \/ Tick /\ Sequential

SeqAuthSpec == Init /\ [][SeqAuthNext]_vars

\* Every operation.
Next == Register \/ Upload \/ Read \/ Admin \/ Forgot \/ Reset \/ Tick

Spec == Init /\ [][Next]_vars

(* ------------------------------- claims ------------------------------- *)

\* A response is sent in this step.
ResponseSent == resp'.seq # resp.seq

\* The documents of user uid that were uploaded as free ones.
FreeDocs(uid) == {i \in 1..Len(docs) : docs[i].user_id = uid /\ docFree[i]}

\* The documents of user uid.
DocsOf(uid) == {i \in 1..Len(docs) : docs[i].user_id = uid}

\* C1: under any interleaving of uploads, a user never holds more than 3
\* documents stored on the free tier (two uploads that both start at
\* free_docs_used = 2 do not both succeed).
C1_FreeCapUnderInterleaving ==
    \A uid \in 1..Len(users) : Cardinality(FreeDocs(uid)) <= FREE_LIMIT

\* C2: reset_password succeeds at most once for every issued token, also
\* when requests presenting the same secret are interleaved.
C2_ConsumeAtMostOnce ==
    \A i \in 1..Len(tokens) : consumeCount[i] <= 1

\* C3: a register request either creates the user or fails with "Email
\* already registered", never with another error.
C3_DuplicateEmailNotGenericError ==
    resp.req.op = "register" =>
        \/ resp.r.code = 200
        \/ resp.r = HTTPException(400, "Email already registered")

\* C4: one request at a time, an upload by an authenticated user is accepted
\* iff the user is paid or has free_docs_used < 3; an accepted upload stores
\* one document of the user and adds 1 to the counter of a non-paid user (0
\* for a paid one); a refused one fails with "Free limit reached" and changes
\* neither the counter nor the documents.
C4_SequentialQuotaGate ==
    [][(ResponseSent /\ resp'.req.op = "upload" /\ resp'.req.creds \in 1..Len(users)) =>
          LET uid == resp'.req.creds
              allowed == users[uid].is_paid \/ users[uid].free_docs_used < FREE_LIMIT
          IN  /\ (resp'.r.code = 200) <=> allowed
              /\ allowed =>
                    /\ Len(docs') = Len(docs) + 1
                    /\ docs'[Len(docs')].user_id = uid
                    /\ resp'.r.id = Len(docs')
                    /\ users'[uid].free_docs_used =
                           users[uid].free_docs_used + (IF users[uid].is_paid THEN 0 ELSE 1)
              /\ ~allowed =>
                    /\ resp'.r = HTTPException(402, "Free limit reached")
                    /\ docs' = docs
                    /\ users' = users
                    /\ users[uid].free_docs_used = FREE_LIMIT
      ]_vars

\* C4's case: a user made paid at counter 3 has had a further upload
\* accepted, the counter staying at 3.
C4_Witness ==
    /\ resp.req.op = "upload"
    /\ resp.r.code = 200
    /\ resp.req.creds \in 1..Len(users)
    /\ users[resp.req.creds].is_paid
    /\ users[resp.req.creds].free_docs_used = FREE_LIMIT
    /\ Cardinality(FreeDocs(resp.req.creds)) = FREE_LIMIT
    /\ Cardinality(DocsOf(resp.req.creds)) > FREE_LIMIT

\* The token a presented secret names, and whether the spec's rule accepts
\* it now: unused and current time < expires_at.
Presented(token) == {i \in 1..Len(tokens) : tokens[i].token_hash = hash_token(token)}

ValidNow(token) ==
    \E i \in Presented(token) : tokens[i].used_at = Null /\ now < tokens[i].expires_at

\* C5: reset_password (with a password long enough) succeeds iff the token
\* is unused and current time < expires_at; otherwise it fails with
\* "Invalid or expired token", also at current time = expires_at.
C5_AcceptedIffUnusedAndBeforeExpiry ==
    [][(/\ ResponseSent
        /\ resp'.req.op = "reset_password"
        /\ Len(resp'.req.password) >= MIN_PASSWORD_LEN) =>
          /\ (resp'.r.code = 200) <=> ValidNow(resp'.req.token)
          /\ resp'.r.code # 200 => resp'.r = HTTPException(400, "Invalid or expired token")
      ]_vars

\* C6: a step marks a token used only together with the password of the
\* request that presented it, and replaces a password only together with
\* marking that request's token used.
C6_ResetIsAtomic ==
    [][/\ \A i \in 1..Len(tokens) :
              (tokens[i].used_at = Null /\ tokens'[i].used_at # Null) =>
                  \E p \in Procs :
                      /\ pc[p] = "rp_commit" /\ pc'[p] = "idle"
                      /\ tokens[i].token_hash = hash_token(req[p].token)
                      /\ users'[tokens[i].user_id].password_hash
                             = hash_password(req[p].password)
       /\ \A uid \in 1..Len(users) :
              users'[uid].password_hash # users[uid].password_hash =>
                  \E p \in Procs, i \in 1..Len(tokens) :
                      /\ pc[p] = "rp_commit" /\ pc'[p] = "idle"
                      /\ tokens[i].token_hash = hash_token(req[p].token)
                      /\ tokens[i].user_id = uid
                      /\ tokens'[i].used_at # Null
                      /\ users'[uid].password_hash = hash_password(req[p].password)
      ]_vars

\* C6's case: a reset has succeeded; its token is used and its password set.
C6_Witness ==
    /\ resp.req.op = "reset_password"
    /\ resp.r.code = 200
    /\ \E i \in Presented(resp.req.token) :
           /\ tokens[i].used_at # Null
           /\ users[tokens[i].user_id].password_hash = hash_password(resp.req.password)
           /\ users[tokens[i].user_id].password_hash # hash_password(Rep("r", 8))

\* C7: free_docs_used of every user equals the number of documents the user
\* stored while non-paid.
C7_CounterCountsFreeUploads ==
    \A uid \in 1..Len(users) :
        users[uid].free_docs_used = Cardinality(FreeDocs(uid))

\* Whether a user has the email, normalized.
Registered(raw) == \E i \in 1..Len(users) : users[i].email = Strip(Lower(raw))

\* C8: forgot_password answers {ok: true} both for a registered and for an
\* unregistered email, and for an unregistered one creates no token and
\* schedules no email.
C8_ForgotPasswordUniform ==
    [][(ResponseSent /\ resp'.req.op = "forgot_password") =>
          /\ resp'.r = Ok(0, <<>>)
          /\ ~Registered(resp'.req.email) => (tokens' = tokens /\ outbox' = outbox)
      ]_vars

\* C8's case: an unregistered email was answered ok while an account and an
\* issued token exist.
C8_Witness ==
    /\ resp.req.op = "forgot_password"
    /\ resp.r.code = 200
    /\ ~Registered(resp.req.email)
    /\ users # <<>>
    /\ tokens # <<>>
    /\ Len(outbox) = Len(tokens)

\* C9: get_document and get_document_review answer an authenticated user
\* with a document only when the id exists and the document is the user's,
\* with that document's fields; otherwise with the same "Document not found",
\* whether the id is absent or another user's.
C9_OwnerOnly ==
    [][(/\ ResponseSent
        /\ resp'.req.op \in {"get_document", "get_document_review"}
        /\ resp'.req.creds \in 1..Len(users)) =>
          LET d == resp'.req.doc_id
              owned == d \in 1..Len(docs) /\ docs[d].user_id = resp'.req.creds
          IN  IF owned
              THEN /\ resp'.r.code = 200
                   /\ resp'.r.id = d
                   /\ resp'.r.body =
                          IF resp'.req.op = "get_document"
                          THEN <<docs[d].original_filename, docs[d].stored_filename,
                                 docs[d].status, docs[d].review_notes>>
                          ELSE <<docs[d].status, docs[d].review_notes>>
              ELSE resp'.r = HTTPException(404, "Document not found")
      ]_vars

\* C9's case: a user asked for another user's document and got "not found".
C9_Witness ==
    /\ resp.req.op \in {"get_document", "get_document_review"}
    /\ resp.req.creds \in 1..Len(users)
    /\ resp.req.doc_id \in 1..Len(docs)
    /\ docs[resp.req.doc_id].user_id # resp.req.creds
    /\ resp.r = HTTPException(404, "Document not found")

\* C10: issuing a token leaves every earlier token as it was.
C10_IssuanceKeepsEarlierTokens ==
    [][Len(tokens') > Len(tokens) =>
          /\ Len(tokens') = Len(tokens) + 1
          /\ \A i \in 1..Len(tokens) : tokens'[i] = tokens[i]
          /\ tokens'[Len(tokens')].used_at = Null
      ]_vars

\* C10's case: a user holds two tokens, and the earlier one was consumed
\* after the later one was issued, which is still consumable.
C10_Witness ==
    /\ Len(tokens) >= 2
    /\ tokens[1].user_id = tokens[2].user_id
    /\ resp.req.op = "reset_password"
    /\ resp.r.code = 200
    /\ resp.req.token = 1
    /\ tokens[1].used_at # Null
    /\ tokens[2].used_at = Null
    /\ now < tokens[2].expires_at

=============================================================================
